---- MODULE Spec2Model ----
(***************************************************************************)
(* Model of the cryptocurrency dashboard of src/app.py: the tiered fetch   *)
(* get_data (CoinGecko, then Yahoo Finance, then generated data) behind    *)
(* its two st.cache_data(ttl=300) caches, the script pass main() with its  *)
(* buttons and auto-refresh timer, the KPI computation and the sentiment   *)
(* score.                                                                  *)
(*                                                                         *)
(* A price table (pandas DataFrame) is a record                            *)
(*   [src, rows, cols, id]                                                 *)
(* src: the tier that built it, rows: its length, cols: its columns, id:   *)
(* the serial number of the fetch or generation that produced it (two      *)
(* separate fetches give tables that are told apart by id).                *)
(***************************************************************************)
EXTENDS Integers, Sequences, FiniteSets, TLC

VARIABLES
    now,            \* time.time(), in seconds
    dataCache,      \* st.cache_data store of get_data, keyed by <<ticker, interval>>
    cgCache,        \* st.cache_data store of get_coingecko_data, keyed by coin_id (days is always 365)
    serial,         \* number of tables fetched or generated so far
    req,            \* the arguments and provider outcomes of the call under test (SpecFetch)
    lastCall,       \* what the most recent get_data call did and returned
    hist,           \* since the last cache clear: per <<ticker, interval>> the value get_data last
                    \* returned, per <<coin_id>> what CoinGecko last answered and when
    calls,          \* number of get_data calls made (SpecCache)
    widgets,        \* the sidebar widgets' values
    last_refresh,   \* st.session_state.last_refresh, or NoTime when absent
    rerun,          \* a st.rerun() is pending: the script runs again at once
    lastPass,       \* what the most recent pass of main() did
    passes,         \* number of passes of main() so far
    kpiIn,          \* the table handed to display_kpi_metrics (SpecMetrics)
    kpi,            \* what display_kpi_metrics computed
    sample,         \* the headlines random.sample picked and what TextBlob makes of them (SpecSentiment)
    sentiment       \* what get_sentiment returned

vars == <<now, dataCache, cgCache, serial, req, lastCall, hist, calls, widgets,
          last_refresh, rerun, lastPass, passes, kpiIn, kpi, sample, sentiment>>

fetchVars == <<now, dataCache, cgCache, serial, req, lastCall, hist, calls>>
mainVars == <<widgets, last_refresh, rerun, lastPass, passes>>
pureVars == <<kpiIn, kpi, sample, sentiment>>

----------------------------------------------------------------------------
(* Bounds *)

\* Largest number of rows a provider answers with.
MaxRows == 2

\* Number of get_data calls in a run of SpecCache.
MaxCalls == 2

\* The clock stops here.
MaxTime == 300

\* Number of passes of main() in a run of Spec.
MaxPasses == 3

\* Longest table handed to display_kpi_metrics.
MaxLen == 3

\* A polarity is a multiple of 1/PolarityScale.
PolarityScale == 10

\* The time that passes between two get_data calls (SpecCache): 299 and 300
\* seconds are one and two steps away.
TickSteps == {149, 150}

\* The time that passes between two passes of main() (Spec): with the
\* second a countdown pass sleeps, 60 and 300 seconds are reached exactly.
WaitSteps == {59, 240}

----------------------------------------------------------------------------
(* Static tables *)

Tickers == {"BTC-USD", "ETH-USD", "SOL-USD"}

\* A ticker outside crypto_list and coingecko_map.
UnknownTicker == "DOGE-USD"

Intervals == {"1m", "5m", "1h", "1d"}

\* An interval outside interval_options.
UnknownInterval == "1wk"

Columns == {"Open", "High", "Low", "Close", "Volume"}

required_cols == {"Open", "High", "Low", "Close"}

NoCoin == "None"

coingecko_map(ticker) ==
    CASE ticker = "BTC-USD" -> "bitcoin"
      [] ticker = "ETH-USD" -> "ethereum"
      [] ticker = "SOL-USD" -> "solana"
      [] OTHER -> NoCoin

CoinIds == {"bitcoin", "ethereum", "solana"}

period_map(interval) ==
    CASE interval = "1m" -> "7d"
      [] interval = "5m" -> "7d"
      [] interval = "1h" -> "60d"
      [] interval = "1d" -> "1y"
      [] OTHER -> "1y"

num_periods_wrong_hour(interval) ==
    IF interval = "1d" THEN 365
    ELSE IF interval = "1h" THEN 24 * 30
    ELSE IF interval = "5m" THEN 24 * 12 * 7
    ELSE 24 * 60 * 7

num_periods(interval) ==
    IF interval = "1d" THEN 365
    ELSE IF interval = "1h" THEN 24 * 60
    ELSE IF interval = "5m" THEN 24 * 12 * 7
    ELSE 24 * 60 * 7

----------------------------------------------------------------------------
(* Tables *)

\* Python's None where a DataFrame is expected.
NoData == [src |-> "none", rows |-> 0, cols |-> {}, id |-> 0]

DataFrame(src, rows, cols, id) == [src |-> src, rows |-> rows, cols |-> cols, id |-> id]

\* DataFrame.empty: some axis has length 0.
empty(df) == df.rows = 0 \/ df.cols = {}

generate_mock_data(ticker, period, interval, id) ==
    DataFrame("mock", num_periods(interval), Columns, id)

----------------------------------------------------------------------------
(* What the two external providers may answer *)

\* requests.get / raise_for_status / response.json of the CoinGecko call:
\* an HTTP error, a timeout, a body that is no JSON, a JSON array of n
\* 5-tuples, or a JSON array of n entries one of which is no 5-tuple.
PrimaryOutcomes ==
    {[kind |-> k, n |-> 0] : k \in {"http_error", "timeout", "bad_json"}}
    \cup {[kind |-> k, n |-> n] : k \in {"array", "bad_candle"}, n \in 0..MaxRows}

\* yf.Ticker(ticker).history(...): it raises, or returns a table of n rows
\* with some set of columns.
SecondaryColumnSets ==
    {Columns, required_cols} \cup {Columns \ {c} : c \in required_cols}

SecondaryOutcomes ==
    {[kind |-> "exception", n |-> 0, cols |-> {}]}
    \cup {[kind |-> "table", n |-> n, cols |-> cs] : n \in 0..MaxRows, cs \in SecondaryColumnSets}

----------------------------------------------------------------------------
(* st.cache_data(ttl=300) *)

TTL == 300

\* A store maps the keys it holds to [at, value]: the value a call returned
\* and the time it was stored. st.cache_data.clear() empties the store of
\* every cached function.
EmptyCache == [k \in {} |-> [at |-> 0, value |-> NoData]]

\* An entry answers a call until ttl seconds have passed since it was stored.
cache_valid(cache, key, t) == key \in DOMAIN cache /\ t - cache[key].at < TTL

cache_store_nothing(cache, key, value, t) == cache

cache_store(cache, key, value, t) ==
    [k \in DOMAIN cache \cup {key} |->
        IF k = key THEN [at |-> t, value |-> value] ELSE cache[k]]

----------------------------------------------------------------------------
(* get_coingecko_data *)

get_coingecko_data_body_no_length_check(out, id) ==
    IF out.kind \in {"http_error", "timeout", "bad_json"}
    THEN [data |-> NoData, ok |-> FALSE]
    ELSE IF out.n = 0
    THEN [data |-> NoData, ok |-> FALSE]
    ELSE IF out.kind = "bad_candle"
    THEN [data |-> NoData, ok |-> FALSE]
    ELSE [data |-> DataFrame("coingecko", out.n, Columns, id), ok |-> TRUE]

get_coingecko_data_body(out, id) ==
    IF out.kind \in {"http_error", "timeout", "bad_json"}
    THEN [data |-> NoData, ok |-> FALSE]                 \* except Exception
    ELSE IF out.n = 0 \/ out.n < 2
    THEN [data |-> NoData, ok |-> FALSE]                 \* not data or len(data) < 2
    ELSE IF out.kind = "bad_candle"
    THEN [data |-> NoData, ok |-> FALSE]                 \* the unpacking raises; except Exception
    ELSE [data |-> DataFrame("coingecko", out.n, Columns, id), ok |-> TRUE]

get_coingecko_data_uncached(cg, coin_id, t, out, id) ==
    LET v == get_coingecko_data_body(out, id + 1)
    IN [value |-> v,
        cache |-> cache_store(cg, coin_id, v, t),
        net |-> TRUE,
        serial |-> IF v.ok THEN id + 1 ELSE id]

\* The cached function: [value, cache, net, serial], net telling whether the
\* provider was contacted.
get_coingecko_data(cg, coin_id, t, out, id) ==
    IF cache_valid(cg, coin_id, t)
    THEN [value |-> cg[coin_id].value, cache |-> cg, net |-> FALSE, serial |-> id]
    ELSE LET v == get_coingecko_data_body(out, id + 1)
         IN [value |-> v,
             cache |-> cache_store(cg, coin_id, v, t),
             net |-> TRUE,
             serial |-> IF v.ok THEN id + 1 ELSE id]

----------------------------------------------------------------------------
(* get_data *)

primary_usable_inverted(data) == data # NoData /\ empty(data)

\* data is not None and not data.empty
primary_usable(data) == data # NoData /\ ~empty(data)

secondary_usable_inverted(out) ==
    /\ out.kind = "table"
    /\ empty(DataFrame("yfinance", out.n, out.cols, 0))
    /\ \A col \in required_cols : col \in out.cols

\* The try block of the Yahoo tier returns: no exception, not data.empty,
\* and every required column present.
secondary_usable(out) ==
    /\ out.kind = "table"
    /\ ~empty(DataFrame("yfinance", out.n, out.cols, 0))
    /\ \A col \in required_cols : col \in out.cols

secondary_is_live_false == FALSE

\* The flag returned with a Yahoo table.
secondary_is_live == TRUE

\* The uncached function. [data, is_live] is what it returns; trace lists
\* the tiers it invoked, in order; cg and serial are the CoinGecko cache and
\* the table counter afterwards; primaryNet and secondaryNet tell whether
\* each provider was contacted.
get_data_body(cg, ticker, interval, t, pOut, sOut, id) ==
    LET coin_id == coingecko_map(ticker)
        tried == coin_id # NoCoin
        p == IF tried
             THEN get_coingecko_data(cg, coin_id, t, pOut, id)
             ELSE [value |-> [data |-> NoData, ok |-> FALSE], cache |-> cg,
                   net |-> FALSE, serial |-> id]
        pTrace == IF tried THEN <<"primary">> ELSE <<>>
        period == period_map(interval)
    IN  IF tried /\ primary_usable(p.value.data)
        THEN [data |-> p.value.data, is_live |-> p.value.ok, trace |-> pTrace,
              cg |-> p.cache, serial |-> p.serial,
              primaryNet |-> p.net, secondaryNet |-> FALSE]
        ELSE IF secondary_usable(sOut)
        THEN [data |-> DataFrame("yfinance", sOut.n, sOut.cols, p.serial + 1),
              is_live |-> secondary_is_live,
              trace |-> pTrace \o <<"secondary">>,
              cg |-> p.cache, serial |-> p.serial + 1,
              primaryNet |-> p.net, secondaryNet |-> TRUE]
        ELSE [data |-> generate_mock_data(ticker, period, interval, p.serial + 1),
              is_live |-> FALSE,
              trace |-> pTrace \o <<"secondary", "synthetic">>,
              cg |-> p.cache, serial |-> p.serial + 1,
              primaryNet |-> p.net, secondaryNet |-> TRUE]

\* The cached function: a valid entry of <<ticker, interval>> answers the
\* call; otherwise the body runs and its return value is stored.
get_data(dc, cg, ticker, interval, t, pOut, sOut, id) ==
    LET key == <<ticker, interval>> IN
    IF cache_valid(dc, key, t)
    THEN [data |-> dc[key].value.data, is_live |-> dc[key].value.is_live,
          hit |-> TRUE, storedAt |-> dc[key].at, trace |-> <<>>,
          dc |-> dc, cg |-> cg, serial |-> id,
          primaryNet |-> FALSE, secondaryNet |-> FALSE]
    ELSE LET r == get_data_body(cg, ticker, interval, t, pOut, sOut, id)
         IN [data |-> r.data, is_live |-> r.is_live,
             hit |-> FALSE, storedAt |-> t, trace |-> r.trace,
             dc |-> cache_store(dc, key, [data |-> r.data, is_live |-> r.is_live], t),
             cg |-> r.cg, serial |-> r.serial,
             primaryNet |-> r.primaryNet, secondaryNet |-> r.secondaryNet]

----------------------------------------------------------------------------
(* Bookkeeping of the calls made, for the properties below *)

\* What get_data last returned for a key since the last cache clear.
NoReturn == [seen |-> FALSE, data |-> NoData, is_live |-> FALSE, storedAt |-> 0]

hist_get(key) == IF key \in DOMAIN hist THEN hist[key] ELSE NoReturn

NoCall ==
    [called |-> FALSE, ticker |-> "", interval |-> "", at |-> 0, hit |-> FALSE,
     storedAt |-> 0, data |-> NoData, is_live |-> FALSE, trace |-> <<>>,
     primaryNet |-> FALSE, secondaryNet |-> FALSE, prev |-> NoReturn,
     prevPrimary |-> NoReturn]

CallRecord(ticker, interval, t, r, prev, prevPrimary) ==
    [called |-> TRUE, ticker |-> ticker, interval |-> interval, at |-> t,
     hit |-> r.hit, storedAt |-> r.storedAt, data |-> r.data, is_live |-> r.is_live,
     trace |-> r.trace, primaryNet |-> r.primaryNet, secondaryNet |-> r.secondaryNet,
     prev |-> prev, prevPrimary |-> prevPrimary]

\* One call get_data(ticker, interval) at the current time, the providers
\* answering pOut and sOut if they are asked.
CallGetData(ticker, interval, pOut, sOut) ==
    \E r \in {get_data(dataCache, cgCache, ticker, interval, now, pOut, sOut, serial)} :
        LET key == <<ticker, interval>>
            coin == <<coingecko_map(ticker)>>
            answered == get_coingecko_data_body(pOut, serial + 1)
        IN  /\ lastCall' = CallRecord(ticker, interval, now, r, hist_get(key), hist_get(coin))
            /\ dataCache' = r.dc
            /\ cgCache' = r.cg
            /\ serial' = r.serial
            /\ hist' = [k \in DOMAIN hist \cup {key} \cup (IF r.primaryNet THEN {coin} ELSE {}) |->
                            IF k = key
                            THEN [seen |-> TRUE, data |-> r.data, is_live |-> r.is_live,
                                  storedAt |-> r.storedAt]
                            ELSE IF k = coin /\ r.primaryNet
                            THEN [seen |-> TRUE, data |-> answered.data, is_live |-> answered.ok,
                                  storedAt |-> now]
                            ELSE hist[k]]

\* st.cache_data.clear()
ClearCaches ==
    /\ dataCache' = EmptyCache
    /\ cgCache' = EmptyCache
    /\ hist' = EmptyCache

----------------------------------------------------------------------------
(* Values of the variables a specification does not use *)

NoTime == -1

DefaultWidgets ==
    [ticker |-> "BTC-USD", interval |-> "1d",
     auto_refresh_enabled |-> FALSE, auto_refresh_interval |-> "60s"]

NoPass ==
    [ran |-> FALSE, button |-> "none", timer |-> FALSE, end |-> "none",
     fetched |-> FALSE, badge |-> "none", kpi |-> FALSE, chart |-> FALSE,
     hadCache |-> FALSE]

NoRequest == [ticker |-> "", interval |-> "", pOut |-> [kind |-> "", n |-> 0],
              sOut |-> [kind |-> "", n |-> 0, cols |-> {}]]

NoKpi ==
    [done |-> FALSE, error |-> FALSE, current_price |-> 0, previous_price |-> 0,
     price_change |-> 0, price_change_pct |-> [num |-> 0, den |-> 1],
     high_24h |-> 0, low_24h |-> 0, change_color |-> "none"]

NoSample == [selected |-> {}, polarity |-> <<>>, raises |-> FALSE]

NoSentiment ==
    [scored |-> FALSE, score |-> [num |-> 0, den |-> 1], label |-> "none", headlines |-> {}]

FetchIdle ==
    /\ now = 0
    /\ dataCache = EmptyCache
    /\ cgCache = EmptyCache
    /\ serial = 0
    /\ req = NoRequest
    /\ lastCall = NoCall
    /\ hist = EmptyCache
    /\ calls = 0

MainIdle ==
    /\ widgets = DefaultWidgets
    /\ last_refresh = NoTime
    /\ rerun = FALSE
    /\ lastPass = NoPass
    /\ passes = 0

PureIdle ==
    /\ kpiIn = <<>>
    /\ kpi = NoKpi
    /\ sample = NoSample
    /\ sentiment = NoSentiment

----------------------------------------------------------------------------
(* SpecFetch: one get_data call on empty caches, for every ticker, interval *)
(* and pair of provider outcomes.                                          *)

Requests ==
    [ticker : Tickers \cup {UnknownTicker},
     interval : Intervals \cup {UnknownInterval},
     pOut : PrimaryOutcomes,
     sOut : SecondaryOutcomes]

InitFetch ==
    /\ now = 0
    /\ dataCache = EmptyCache
    /\ cgCache = EmptyCache
    /\ serial = 0
    /\ req \in Requests
    /\ lastCall = NoCall
    /\ hist = EmptyCache
    /\ calls = 0
    /\ MainIdle
    /\ PureIdle

Fetch ==
    /\ ~lastCall.called
    /\ CallGetData(req.ticker, req.interval, req.pOut, req.sOut)
    /\ calls' = calls + 1
    /\ UNCHANGED <<now, req, mainVars, pureVars>>

NextFetch == Fetch

SpecFetch == InitFetch /\ [][NextFetch]_vars

----------------------------------------------------------------------------
(* SpecCache: a few get_data calls in a row, time passing and the caches   *)
(* being cleared in between.                                               *)

\* time.time() moves on by one of the steps.
Advance(steps) ==
    /\ \E d \in steps :
          /\ now + d <= MaxTime
          /\ now' = now + d
    /\ UNCHANGED <<dataCache, cgCache, serial, req, lastCall, hist, calls, mainVars, pureVars>>

Tick == Advance(TickSteps)

\* The calls made: two assets, two intervals, and of each provider a
\* failure by exception, an empty answer and a full answer.
CacheTickers == {"BTC-USD", "ETH-USD"}
CacheIntervals == {"1h", "1d"}
CachePrimaryOutcomes ==
    {o \in PrimaryOutcomes : o.kind \in {"timeout", "array"} /\ o.n \in {0, MaxRows}}
CacheSecondaryOutcomes ==
    {o \in SecondaryOutcomes : o.cols \in {{}, Columns} /\ o.n \in {0, MaxRows}}

Call ==
    /\ calls < MaxCalls
    /\ \E ticker \in CacheTickers, interval \in CacheIntervals,
          pOut \in CachePrimaryOutcomes, sOut \in CacheSecondaryOutcomes :
          CallGetData(ticker, interval, pOut, sOut)
    /\ calls' = calls + 1
    /\ UNCHANGED <<now, req, mainVars, pureVars>>

Clear ==
    /\ dataCache # EmptyCache
    /\ ClearCaches
    /\ UNCHANGED <<now, serial, req, lastCall, calls, mainVars, pureVars>>

InitCache == FetchIdle /\ MainIdle /\ PureIdle

NextCache == Call \/ Tick \/ Clear

SpecCache == InitCache /\ [][NextCache]_vars

----------------------------------------------------------------------------
(* Spec: the dashboard. Streamlit runs main() from top to bottom on page   *)
(* load, on every widget interaction and on every st.rerun(); one action   *)
(* is one such pass.                                                       *)

RefreshOptions == {"30s", "60s", "120s", "300s"}

\* The options the user picks among in the two selectboxes of the data.
PickedTickers == {"BTC-USD", "ETH-USD"}
PickedIntervals == {"1h", "1d"}

\* What the providers answer in a pass: a failure or a full answer.
PassPrimaryOutcomes == {o \in CachePrimaryOutcomes : o.kind = "timeout" \/ o.n = MaxRows}
PassSecondaryOutcomes == {o \in CacheSecondaryOutcomes : o.kind = "exception" \/ o.n = MaxRows}

interval_map(option) ==
    CASE option = "30s" -> 30
      [] option = "60s" -> 60
      [] option = "120s" -> 120
      [] option = "300s" -> 300
      [] OTHER -> 60

timer_due_late(elapsed, refresh_sec) == elapsed > refresh_sec

\* if elapsed >= refresh_sec
timer_due(elapsed, refresh_sec) == elapsed >= refresh_sec

PassRecord(button, timer, end, fetched, badge, kpiShown, chart) ==
    [ran |-> TRUE, button |-> button, timer |-> timer, end |-> end,
     fetched |-> fetched, badge |-> badge, kpi |-> kpiShown, chart |-> chart,
     hadCache |-> dataCache # EmptyCache]

\* st.session_state.clear(): last_refresh goes, and the widgets created
\* with a key fall back to their default values.
session_state_clear(w) ==
    [w EXCEPT !.auto_refresh_enabled = DefaultWidgets.auto_refresh_enabled,
              !.auto_refresh_interval = DefaultWidgets.auto_refresh_interval]

\* One pass of main() with the widgets showing w and `button` clicked
\* ("none" when the pass was not started by a button).
RunMain(w, button) ==
    /\ passes < MaxPasses
    /\ passes' = passes + 1
    /\ UNCHANGED <<req, calls, pureVars>>
    /\ IF button = "refresh_btn"
       THEN \* st.cache_data.clear(); st.rerun()
            /\ ClearCaches
            /\ widgets' = w
            /\ rerun' = TRUE
            /\ lastPass' = PassRecord(button, FALSE, "rerun", FALSE, "none", FALSE, FALSE)
            /\ UNCHANGED <<now, serial, lastCall, last_refresh>>
       ELSE IF button = "clear_btn"
       THEN \* st.cache_data.clear(); st.session_state.clear(); st.rerun()
            /\ ClearCaches
            /\ widgets' = session_state_clear(w)
            /\ last_refresh' = NoTime
            /\ rerun' = TRUE
            /\ lastPass' = PassRecord(button, FALSE, "rerun", FALSE, "none", FALSE, FALSE)
            /\ UNCHANGED <<now, serial, lastCall>>
       ELSE IF w.auto_refresh_enabled
       THEN LET refresh_sec == interval_map(w.auto_refresh_interval)
                started == IF last_refresh = NoTime THEN now ELSE last_refresh
                current_time == now
                elapsed == current_time - started
            IN  IF timer_due(elapsed, refresh_sec)
                THEN \* last_refresh = current_time; st.cache_data.clear(); st.rerun()
                     /\ last_refresh' = current_time
                     /\ ClearCaches
                     /\ widgets' = w
                     /\ rerun' = TRUE
                     /\ lastPass' = PassRecord(button, TRUE, "rerun", FALSE, "none", FALSE, FALSE)
                     /\ UNCHANGED <<now, serial, lastCall>>
                ELSE \* the countdown caption; time.sleep(1); st.rerun()
                     /\ now + 1 <= MaxTime
                     /\ now' = now + 1
                     /\ last_refresh' = started
                     /\ widgets' = w
                     /\ rerun' = TRUE
                     /\ lastPass' = PassRecord(button, TRUE, "rerun", FALSE, "none", FALSE, FALSE)
                     /\ UNCHANGED <<dataCache, cgCache, hist, serial, lastCall>>
       ELSE \* data, is_live = get_data(ticker, selected_interval), then the page:
            \* the badge, the KPI row and the chart (what display_kpi_metrics
            \* and get_sentiment compute is modelled in SpecMetrics and
            \* SpecSentiment; here only that they were shown)
            /\ \E pOut \in PassPrimaryOutcomes, sOut \in PassSecondaryOutcomes :
                  /\ CallGetData(w.ticker, w.interval, pOut, sOut)
                  /\ lastPass' =
                        IF lastCall'.data # NoData
                        THEN PassRecord(button, TRUE, "end", TRUE,
                                        IF lastCall'.is_live THEN "LIVE DATA" ELSE "DEMO DATA",
                                        TRUE, TRUE)
                        ELSE PassRecord(button, TRUE, "end", TRUE, "warning", FALSE, FALSE)
            /\ widgets' = w
            /\ rerun' = FALSE
            /\ UNCHANGED <<now, last_refresh>>

\* The first pass: the page is opened, every widget shows its default.
PageLoad ==
    /\ passes = 0
    /\ RunMain(DefaultWidgets, "none")

\* The pass a st.rerun() starts: nothing was touched.
Rerun ==
    /\ passes > 0
    /\ rerun
    /\ RunMain(widgets, "none")

SelectCrypto ==
    /\ passes > 0
    /\ \E t \in PickedTickers \ {widgets.ticker} : RunMain([widgets EXCEPT !.ticker = t], "none")

SelectInterval ==
    /\ passes > 0
    /\ \E i \in PickedIntervals \ {widgets.interval} : RunMain([widgets EXCEPT !.interval = i], "none")

ToggleAutoRefresh ==
    /\ passes > 0
    /\ RunMain([widgets EXCEPT !.auto_refresh_enabled = ~widgets.auto_refresh_enabled], "none")

SelectRefreshInterval ==
    /\ passes > 0
    /\ \E o \in RefreshOptions \ {widgets.auto_refresh_interval} :
          RunMain([widgets EXCEPT !.auto_refresh_interval = o], "none")

ClickRefresh ==
    /\ passes > 0
    /\ RunMain(widgets, "refresh_btn")

ClickClearAll ==
    /\ passes > 0
    /\ RunMain(widgets, "clear_btn")

\* Time passes while the page is open.
Wait ==
    /\ passes > 0
    /\ Advance(WaitSteps)

Init == FetchIdle /\ MainIdle /\ PureIdle

Next ==
    \/ PageLoad
    \/ Rerun
    \/ SelectCrypto
    \/ SelectInterval
    \/ ToggleAutoRefresh
    \/ SelectRefreshInterval
    \/ ClickRefresh
    \/ ClickClearAll
    \/ Wait

Spec == Init /\ [][Next]_vars

----------------------------------------------------------------------------
(* Exact arithmetic: a number is a fraction [num, den] in lowest terms     *)
(* with den > 0 (the code computes in floating point).                     *)

RECURSIVE GCD(_, _)
GCD(a, b) == IF b = 0 THEN a ELSE GCD(b, a % b)

Abs(x) == IF x < 0 THEN -x ELSE x

Frac(n, d) ==
    LET g == GCD(Abs(n), Abs(d))
        sgn == IF d < 0 THEN -1 ELSE 1
    IN  [num |-> sgn * (n \div g), den |-> sgn * (d \div g)]

FracGeq(f, k) == f.num >= k * f.den

----------------------------------------------------------------------------
(* SpecMetrics: display_kpi_metrics on every table of up to MaxLen rows.   *)
(* Here a table is the sequence of its rows [Close, High, Low].            *)

CloseValues == {0, 100, 110}

Rows == {[Close |-> c, High |-> c + d, Low |-> c - d] : c \in CloseValues, d \in {0, 5}}

Tables == UNION {[1..n -> Rows] : n \in 0..MaxLen}

TailWindow == 24

\* data[column].tail(n): the last n rows (all of them when there are fewer).
tail(data, n) ==
    IF Len(data) <= n THEN data ELSE SubSeq(data, Len(data) - n + 1, Len(data))

SeqMax(q) == CHOOSE x \in {q[i] : i \in 1..Len(q)} : \A i \in 1..Len(q) : q[i] <= x
SeqMin(q) == CHOOSE x \in {q[i] : i \in 1..Len(q)} : \A i \in 1..Len(q) : x <= q[i]

Column(data, name) == [i \in 1..Len(data) |-> data[i][name]]

previous_price_off_by_one(data) ==
    IF Len(data) > 2 THEN data[Len(data) - 1].Close ELSE data[Len(data)].Close

\* data['Close'].iloc[-2] if len(data) > 1 else current_price
previous_price(data) ==
    IF Len(data) > 1 THEN data[Len(data) - 1].Close ELSE data[Len(data)].Close

\* What display_kpi_metrics shows; on an empty table iloc[-1] raises and
\* the except branch shows an error instead.
display_kpi_metrics(data) ==
    IF Len(data) = 0
    THEN [NoKpi EXCEPT !.done = TRUE, !.error = TRUE]
    ELSE LET current_price == data[Len(data)].Close
             previous == previous_price(data)
             price_change == current_price - previous
             price_change_pct ==
                 IF previous # 0 THEN Frac(price_change * 100, previous) ELSE Frac(0, 1)
             high_24h == IF Len(data) >= TailWindow
                         THEN SeqMax(Column(tail(data, TailWindow), "High"))
                         ELSE SeqMax(Column(data, "High"))
             low_24h == IF Len(data) >= TailWindow
                        THEN SeqMin(Column(tail(data, TailWindow), "Low"))
                        ELSE SeqMin(Column(data, "Low"))
         IN  [done |-> TRUE, error |-> FALSE,
              current_price |-> current_price, previous_price |-> previous,
              price_change |-> price_change, price_change_pct |-> price_change_pct,
              high_24h |-> high_24h, low_24h |-> low_24h,
              change_color |-> IF price_change_pct.num > 0 THEN "green" ELSE "red"]

InitMetrics ==
    /\ FetchIdle
    /\ MainIdle
    /\ kpiIn \in Tables
    /\ kpi = NoKpi
    /\ sample = NoSample
    /\ sentiment = NoSentiment

DisplayKpiMetrics ==
    /\ ~kpi.done
    /\ kpi' = display_kpi_metrics(kpiIn)
    /\ UNCHANGED <<fetchVars, mainVars, kpiIn, sample, sentiment>>

NextMetrics == DisplayKpiMetrics

SpecMetrics == InitMetrics /\ [][NextMetrics]_vars

----------------------------------------------------------------------------
(* SpecSentiment: get_sentiment on every sample of 3 to 5 of the 8         *)
(* headlines, TextBlob giving each a polarity in [-1, 1] (written in       *)
(* 1/PolarityScale) or raising.                                            *)

NumHeadlines == 8
MinSample == 3
MaxSample == 5

mock_headlines == 1..NumHeadlines

PolarityValues == {-PolarityScale, -(PolarityScale \div 5), PolarityScale \div 5, PolarityScale}

\* random.sample(mock_headlines, k=random.randint(3, 5)); the order of the
\* sample does not enter the score and is left out.
Selections == {sel \in SUBSET mock_headlines : Cardinality(sel) \in MinSample..MaxSample}

\* The sample is scored, each headline with one of the polarities, or
\* TextBlob raises on it.
IsSample(smp) ==
    \E sel \in Selections :
        \/ \E f \in [sel -> PolarityValues] :
              smp = [selected |-> sel, polarity |-> f, raises |-> FALSE]
        \/ smp = [selected |-> sel, polarity |-> [h \in sel |-> 0], raises |-> TRUE]

RECURSIVE SumOver(_, _)
SumOver(f, S) ==
    IF S = {} THEN 0
    ELSE LET h == CHOOSE x \in S : TRUE IN f[h] + SumOver(f, S \ {h})

sentiment_label_exclusive(pct) ==
    IF pct.num > 60 * pct.den THEN "BULLISH"
    ELSE IF pct.num > 40 * pct.den THEN "NEUTRAL"
    ELSE "BEARISH"

sentiment_label(pct) ==
    IF FracGeq(pct, 60) THEN "BULLISH"
    ELSE IF FracGeq(pct, 40) THEN "NEUTRAL"
    ELSE "BEARISH"

get_sentiment(smp) ==
    IF smp.raises
    THEN \* except Exception
         [scored |-> TRUE, score |-> Frac(50, 1), label |-> "NEUTRAL", headlines |-> {}]
    ELSE LET n == Cardinality(smp.selected)
             \* avg_sentiment = sum(sentiment_scores) / len(sentiment_scores)
             avg_sentiment == Frac(SumOver(smp.polarity, smp.selected), n * PolarityScale)
             \* ((avg_sentiment + 1) / 2) * 100
             sentiment_percentage ==
                 Frac((avg_sentiment.num + avg_sentiment.den) * 100, 2 * avg_sentiment.den)
         IN  [scored |-> TRUE, score |-> sentiment_percentage,
              label |-> sentiment_label(sentiment_percentage),
              headlines |-> smp.selected]

InitSentiment ==
    /\ FetchIdle
    /\ MainIdle
    /\ kpiIn = <<>>
    /\ kpi = NoKpi
    /\ IsSample(sample)
    /\ sentiment = NoSentiment

GetSentiment ==
    /\ ~sentiment.scored
    /\ sentiment' = get_sentiment(sample)
    /\ UNCHANGED <<fetchVars, mainVars, kpiIn, kpi, sample>>

NextSentiment == GetSentiment

SpecSentiment == InitSentiment /\ [][NextSentiment]_vars

----------------------------------------------------------------------------
(* Properties of one get_data call (SpecFetch) *)

\* The providers' answers as the caller sees them, stated apart from the
\* code above: the primary provider returns a series when it answers with a
\* JSON array of at least two 5-tuples; the secondary provider succeeds when
\* it answers with a non-empty table that has all of Open, High, Low, Close.
InStaticMap(ticker) == ticker \in {"BTC-USD", "ETH-USD", "SOL-USD"}

PrimaryReturnsSeries(r) ==
    InStaticMap(r.ticker) /\ r.pOut.kind = "array" /\ r.pOut.n >= 2

SecondarySucceeds(r) ==
    /\ r.sOut.kind = "table"
    /\ r.sOut.n >= 1
    /\ {"Open", "High", "Low", "Close"} \subseteq r.sOut.cols

RowCountTable(interval) ==
    CASE interval = "1d" -> 365
      [] interval = "1h" -> 1440
      [] interval = "5m" -> 2016
      [] OTHER -> 10080

Invoked(tier) == \E i \in 1..Len(lastCall.trace) : lastCall.trace[i] = tier

\* C1: for every supported asset and interval and every pair of provider
\* outcomes, get_data returns a boolean is_live and a series of length >= 2.
\* (Fails: a one-row Yahoo table is returned as it is.)
C1_SeriesAtLeastTwoRows ==
    (lastCall.called /\ req.ticker \in Tickers /\ req.interval \in Intervals)
        => (lastCall.is_live \in BOOLEAN /\ lastCall.data.rows >= 2)

\* C2: the tiers are consulted in the order primary, secondary, synthetic;
\* the secondary only after the primary was skipped or returned no series,
\* the synthetic generator only after the secondary failed too; the result
\* is the series of the last tier consulted; and a primary series is
\* returned with is_live = TRUE without invoking the lower tiers.
C2_TierOrder ==
    lastCall.called =>
        /\ lastCall.trace \in {<<"primary">>, <<"primary", "secondary">>,
                               <<"primary", "secondary", "synthetic">>,
                               <<"secondary">>, <<"secondary", "synthetic">>}
        /\ Invoked("primary") <=> InStaticMap(req.ticker)
        /\ Invoked("secondary") => ~PrimaryReturnsSeries(req)
        /\ Invoked("synthetic") => (Invoked("secondary") /\ ~SecondarySucceeds(req))
        /\ ~PrimaryReturnsSeries(req) => Invoked("secondary")
        /\ (~PrimaryReturnsSeries(req) /\ ~SecondarySucceeds(req)) => Invoked("synthetic")
        /\ lastCall.data.src =
              (CASE lastCall.trace[Len(lastCall.trace)] = "primary" -> "coingecko"
                 [] lastCall.trace[Len(lastCall.trace)] = "secondary" -> "yfinance"
                 [] OTHER -> "mock")
        /\ PrimaryReturnsSeries(req) =>
              /\ lastCall.trace = <<"primary">>
              /\ lastCall.is_live = TRUE
              /\ lastCall.data.src = "coingecko"
              /\ lastCall.data.rows = req.pOut.n

C2_Witness ==
    /\ lastCall.called
    /\ lastCall.trace = <<"primary", "secondary", "synthetic">>
    /\ lastCall.data.src = "mock"

\* C3: when the primary provider fails and the secondary succeeds, is_live
\* is TRUE and the series returned is the secondary provider's table.
C3_SecondaryResultReturned ==
    (lastCall.called /\ ~PrimaryReturnsSeries(req) /\ SecondarySucceeds(req)) =>
        /\ lastCall.is_live = TRUE
        /\ lastCall.data.src = "yfinance"
        /\ lastCall.data.rows = req.sOut.n
        /\ lastCall.data.cols = req.sOut.cols

C3_Witness ==
    /\ lastCall.called
    /\ InStaticMap(req.ticker)
    /\ req.pOut.kind = "http_error"
    /\ SecondarySucceeds(req)
    /\ lastCall.data.src = "yfinance"

\* C4, as stated: is_live is TRUE only when the series came from the
\* primary provider. (Fails: a Yahoo table is returned with is_live = TRUE.)
C4_LiveOnlyFromPrimary ==
    lastCall.called => (lastCall.is_live => lastCall.data.src = "coingecko")

\* C4, amended: is_live is FALSE exactly when the series was produced by
\* the synthetic generator; it is TRUE for a series of the primary and for
\* a series of the secondary provider.
C4_LiveUnlessSynthetic ==
    lastCall.called =>
        /\ lastCall.is_live <=> lastCall.data.src \in {"coingecko", "yfinance"}
        /\ ~lastCall.is_live <=> lastCall.data.src = "mock"

C4_Witness ==
    /\ lastCall.called
    /\ lastCall.data.src = "yfinance"
    /\ lastCall.is_live

\* C5: when both providers fail, is_live is FALSE and the series is the
\* synthetic one, of 365 rows for 1d, 1440 for 1h, 2016 for 5m and 10080
\* for any other interval.
C5_SyntheticLength ==
    (lastCall.called /\ ~PrimaryReturnsSeries(req) /\ ~SecondarySucceeds(req)) =>
        /\ lastCall.is_live = FALSE
        /\ lastCall.data.src = "mock"
        /\ lastCall.data.rows = RowCountTable(req.interval)

C5_Witness ==
    /\ lastCall.called
    /\ req.interval = "1h"
    /\ req.pOut.kind = "timeout"
    /\ req.sOut.kind = "exception"
    /\ lastCall.data.rows = 1440

\* The failures of the two providers, as the claim lists them.
PrimaryFailure(r) ==
    \/ r.pOut.kind \in {"http_error", "timeout"}
    \/ r.pOut.kind \in {"bad_json", "bad_candle"}
    \/ r.pOut.kind = "array" /\ r.pOut.n = 0
    \/ r.pOut.kind = "array" /\ r.pOut.n < 2

SecondaryFailure(r) ==
    \/ r.sOut.kind = "exception"
    \/ r.sOut.kind = "table" /\ r.sOut.n = 0
    \/ r.sOut.kind = "table" /\ \E c \in {"Open", "High", "Low", "Close"} : c \notin r.sOut.cols

\* C11: a provider failure is never passed on to the caller of get_data.
\* On an HTTP error, a timeout, a malformed payload, an empty array or an
\* array shorter than 2 the primary provider returns (None, False) and
\* get_data goes on to the secondary tier; on an exception, an empty table
\* or a table missing one of Open/High/Low/Close the secondary tier is
\* given up and get_data goes on to the synthetic tier; in each case
\* get_data returns a table and a boolean.
C11_FailuresFallThrough ==
    lastCall.called =>
        /\ (InStaticMap(req.ticker) /\ PrimaryFailure(req)) =>
              /\ DOMAIN cgCache # {}
              /\ \A c \in DOMAIN cgCache :
                    cgCache[c].value = [data |-> NoData, ok |-> FALSE]
              /\ Invoked("secondary")
        /\ (Invoked("secondary") /\ SecondaryFailure(req)) =>
              /\ Invoked("synthetic")
              /\ lastCall.data.src = "mock"
        /\ (PrimaryFailure(req) \/ SecondaryFailure(req)) =>
              /\ lastCall.data # NoData
              /\ lastCall.data.rows >= 1
              /\ lastCall.is_live \in BOOLEAN

C11_Witness ==
    /\ lastCall.called
    /\ InStaticMap(req.ticker)
    /\ req.pOut = [kind |-> "bad_candle", n |-> 2]
    /\ req.sOut.kind = "table"
    /\ req.sOut.n = 2
    /\ "Close" \notin req.sOut.cols
    /\ lastCall.trace = <<"primary", "secondary", "synthetic">>
    /\ lastCall.data.src = "mock"

----------------------------------------------------------------------------
(* Properties of the cache of get_data (SpecCache) *)

\* C6: a get_data call made while the value returned by an earlier call of
\* the same (ticker, interval) is within its 300-second validity window, no
\* cache clear in between, returns the identical series and is_live flag,
\* contacts neither provider and generates no synthetic data.
C6_SecondCallReusesResult ==
    (/\ lastCall.called
     /\ lastCall.prev.seen
     /\ lastCall.at - lastCall.prev.storedAt < 300) =>
        /\ lastCall.data = lastCall.prev.data
        /\ lastCall.is_live = lastCall.prev.is_live
        /\ lastCall.trace = <<>>
        /\ ~lastCall.primaryNet
        /\ ~lastCall.secondaryNet

C6_Witness ==
    /\ lastCall.called
    /\ lastCall.prev.seen
    /\ lastCall.at - lastCall.prev.storedAt = 299
    /\ lastCall.data = lastCall.prev.data
    /\ lastCall.data.src = "yfinance"

----------------------------------------------------------------------------
(* Properties of the passes of main() (Spec) *)

\* C7: every pass of main() that no button click cuts short (the page
\* load, a widget change, the rerun after a click, a rerun of the
\* auto-refresh timer) reaches the get_data call and renders the metrics
\* and the chart before it ends.
\* (Fails: with auto-refresh enabled every pass ends in st.rerun().)
C7_EveryPassRenders ==
    (lastPass.ran /\ lastPass.button = "none") =>
        (lastPass.fetched /\ lastPass.kpi /\ lastPass.chart)

RefreshSeconds(option) ==
    CASE option = "30s" -> 30
      [] option = "60s" -> 60
      [] option = "120s" -> 120
      [] option = "300s" -> 300

\* C10: in a pass that reaches the auto-refresh block with auto-refresh
\* enabled, the caches are cleared and last_refresh is set to the current
\* time exactly when the time elapsed since last_refresh (since now, when
\* this pass is the one that starts the timer) is at least the selected
\* interval; otherwise the caches and the timer's start are left as they
\* are. With auto-refresh disabled the pass drops no cache entry and does
\* not touch last_refresh.
C10_TimerRefresh ==
    [][(passes' = passes + 1 /\ lastPass'.timer) =>
        LET sec == RefreshSeconds(widgets'.auto_refresh_interval)
            started == IF last_refresh = NoTime THEN now ELSE last_refresh
            elapsed == now - started
        IN  IF widgets'.auto_refresh_enabled
            THEN IF elapsed >= sec
                 THEN /\ dataCache' = EmptyCache
                      /\ cgCache' = EmptyCache
                      /\ last_refresh' = now
                 ELSE /\ dataCache' = dataCache
                      /\ cgCache' = cgCache
                      /\ last_refresh' = started
            ELSE /\ last_refresh' = last_refresh
                 /\ DOMAIN dataCache \subseteq DOMAIN dataCache'
                 /\ DOMAIN cgCache \subseteq DOMAIN cgCache'
      ]_vars

C10_Witness ==
    /\ lastPass.ran
    /\ lastPass.timer
    /\ widgets.auto_refresh_enabled
    /\ lastPass.hadCache
    /\ dataCache = EmptyCache
    /\ last_refresh = now
    /\ now >= 60

----------------------------------------------------------------------------
(* Properties of display_kpi_metrics (SpecMetrics) *)

\* C8: on a table of at least one row, current is the last close, previous
\* the second-to-last close (current when there is one row), and the change
\* in percent is (current - previous) / previous * 100, or 0 when previous
\* is 0; so one row gives 0 and the closes 100, 110 give 10.
C8_ChangePercent ==
    (kpi.done /\ Len(kpiIn) >= 1) =>
        LET n == Len(kpiIn)
            current == kpiIn[n].Close
            previous == IF n = 1 THEN current ELSE kpiIn[n - 1].Close
            pct == kpi.price_change_pct
        IN  /\ ~kpi.error
            /\ kpi.current_price = current
            /\ kpi.previous_price = previous
            /\ pct.den > 0
            /\ IF previous = 0
               THEN pct.num = 0
               ELSE pct.num * previous = (current - previous) * 100 * pct.den
            /\ n = 1 => pct.num = 0
            /\ (n = 2 /\ kpiIn[1].Close = 100 /\ kpiIn[2].Close = 110)
                  => (pct.num = 10 /\ pct.den = 1)

C8_Witness ==
    /\ kpi.done
    /\ Len(kpiIn) = 2
    /\ kpiIn[1].Close = 100
    /\ kpiIn[2].Close = 110
    /\ kpi.price_change_pct = [num |-> 10, den |-> 1]

----------------------------------------------------------------------------
(* Properties of get_sentiment (SpecSentiment) *)

\* C9: for every sample of 3 to 5 distinct headlines and every polarity in
\* [-1, 1], the score lies in [0, 100] and the label is BULLISH from 60 up,
\* NEUTRAL from 40 up to below 60 and BEARISH below 40; when the scoring
\* raises, the score is 50 and the label NEUTRAL.
C9_ScoreAndLabel ==
    sentiment.scored =>
        LET sc == sentiment.score IN
        /\ sc.den > 0
        /\ 0 <= sc.num
        /\ sc.num <= 100 * sc.den
        /\ sc.num >= 60 * sc.den => sentiment.label = "BULLISH"
        /\ (sc.num >= 40 * sc.den /\ sc.num < 60 * sc.den) => sentiment.label = "NEUTRAL"
        /\ sc.num < 40 * sc.den => sentiment.label = "BEARISH"
        /\ sample.raises => (sc = [num |-> 50, den |-> 1] /\ sentiment.label = "NEUTRAL")
        /\ ~sample.raises =>
              /\ sentiment.headlines = sample.selected
              /\ Cardinality(sentiment.headlines) \in 3..5
              /\ sc.num * 2 * Cardinality(sample.selected) * PolarityScale =
                    sc.den * 100 * (SumOver(sample.polarity, sample.selected)
                                    + Cardinality(sample.selected) * PolarityScale)

C9_Witness ==
    /\ sentiment.scored
    /\ ~sample.raises
    /\ sentiment.score = [num |-> 60, den |-> 1]
    /\ sentiment.label = "BULLISH"

----------------------------------------------------------------------------
(* Properties of the cache of get_coingecko_data (SpecCache) *)

\* C12: what the primary provider answered for an asset, a failure
\* included, is reused for 300 seconds: a get_data call for that asset,
\* with any interval, made less than 300 seconds after the provider was
\* contacted and with no cache clear in between does not contact it again;
\* and when the call runs the tiers, it takes the cached answer: the
\* cached series with is_live = TRUE after a success, the secondary or
\* synthetic tier after a failure.
C12_PrimaryOutcomeReused ==
    (/\ lastCall.called
     /\ lastCall.prevPrimary.seen
     /\ lastCall.at - lastCall.prevPrimary.storedAt < 300) =>
        /\ ~lastCall.primaryNet
        /\ ~lastCall.hit =>
              IF lastCall.prevPrimary.is_live
              THEN /\ lastCall.data = lastCall.prevPrimary.data
                   /\ lastCall.is_live = TRUE
                   /\ lastCall.trace = <<"primary">>
              ELSE /\ lastCall.data.src \in {"yfinance", "mock"}
                   /\ lastCall.trace[1] = "primary"
                   /\ lastCall.trace[2] = "secondary"

C12_Witness ==
    /\ lastCall.called
    /\ lastCall.prevPrimary.seen
    /\ ~lastCall.prevPrimary.is_live
    /\ lastCall.at - lastCall.prevPrimary.storedAt = 299
    /\ ~lastCall.prev.seen
    /\ ~lastCall.hit
    /\ ~lastCall.primaryNet
    /\ lastCall.data.src = "mock"

====
